---- MODULE Spec2Model ----
(***************************************************************************)
(* Decision and optimization engine of ml-automation: product lifecycle    *)
(* (pricing, scoring, approval, publication), the rule-based optimizer and *)
(* the A/B test evaluator, with the scheduled jobs that drive them.        *)
(*                                                                         *)
(* Numbers.  Python floats are modelled by exact scaled integers:          *)
(*   money        in cents             (100.00 -> 10000)                   *)
(*   percentages  in hundredths of 1%  (35.49  -> 3549), "bp" below        *)
(* round(x, 2) is RoundDiv, half-to-even on the exact quotient.            *)
(***************************************************************************)
EXTENDS Integers, Sequences, FiniteSets

\* A missing row and the NULL of a nullable column; a column that holds v is <<v>>.
NULL == <<>>
Val(column) == column[1]

(***************************************************************************)
(* Bounds of the model.                                                    *)
(***************************************************************************)
MaxProducts == 2      \* product ids 1..MaxProducts
MaxCatalog == 1       \* products the lifecycle requests work on
MaxItems == 2         \* remote item ids the marketplace hands out
MaxInFlight == 1      \* concurrent publish requests awaiting create_item
MaxRows == 2          \* rows of listing_metrics
MaxDay == 8           \* the clock runs over days 0..MaxDay
MaxTests == 1         \* rows of ab_tests
MaxLog == 3           \* rows of action_logs

PIDS == 1..MaxProducts
Catalog == 1..MaxCatalog

(***************************************************************************)
(* config/business_rules.py and the literals of the core modules.          *)
(***************************************************************************)
COMMISSION_PERCENTAGE == 13
IVA_PERCENTAGE == 16
ISR_PERCENTAGE == 1
MIN_MARGIN_PERCENTAGE == 30
IDEAL_MARGIN_PERCENTAGE == 40
SCORE_AUTO_PUBLISH == 80
SCORE_NEEDS_APPROVAL == 50
AB_TEST_DURATION_DAYS == 7
AB_TEST_MIN_VISITS == 100
AB_TEST_MIN_SALES == 5
PAUSE_NO_SALES_DAYS == 14
PAUSE_MIN_VISITS == 50
PAUSE_MIN_CTR == 50
PRICE_REDUCTION_PERCENTAGE == 5
ADS_MIN_SALES == 5
ADS_MIN_MARGIN == 3000
ADS_MIN_CTR == 200
SCALE_MIN_SALES_7DAYS == 10
SCALE_MIN_CONVERSION == 300
SCALE_MIN_STOCK == 20

(***************************************************************************)
(* Arithmetic helpers.                                                     *)
(***************************************************************************)
Abs(x) == IF x < 0 THEN -x ELSE x

\* round(n / d) for d > 0, ties to the even integer (Python's round; where the
\* exact quotient is a tie the binary float may fall on either side of it).
RoundDiv(n, d) ==
    LET q == n \div d
        r == n - q * d
    IN  IF 2 * r < d THEN q
        ELSE IF 2 * r > d THEN q + 1
        ELSE IF q % 2 = 0 THEN q ELSE q + 1

\* round(a * b / c) for c > 0 without forming the full product a * b.
MulDivRound(a, b, c) ==
    LET q == a \div c
        r == a - q * c
    IN  q * b + RoundDiv(r * b, c)

(***************************************************************************)
(* core/pricing_calculator.py                                              *)
(***************************************************************************)
TotalCostPercentage == COMMISSION_PERCENTAGE + ISR_PERCENTAGE
MinMarginDen == 100 - (TotalCostPercentage + MIN_MARGIN_PERCENTAGE)
\* The ideal-margin divisor without the commission and ISR share: a slip C16
\* has to exclude.
IdealMarginDenNoCosts == 100 - IDEAL_MARGIN_PERCENTAGE

IdealMarginDen == 100 - (TotalCostPercentage + IDEAL_MARGIN_PERCENTAGE)

\* revenue_without_iva at the competitive price, as the exact fraction
\* RevenueNum / RevenueDen (the IVA factor cancels).
RevenueNum(base_cost) == base_cost * 100 * (MinMarginDen + IdealMarginDen)
RevenueDen == 2 * MinMarginDen * IdealMarginDen

\* round(profit / revenue_without_iva * 100, 2) at the competitive price.
CompetitiveMargin(base_cost) ==
    LET rn == RevenueNum(base_cost)
        pn == (100 - TotalCostPercentage) * rn - 100 * base_cost * RevenueDen
    IN  IF rn > 0 THEN MulDivRound(pn, 100, rn) ELSE MulDivRound(-pn, 100, -rn)

\* calculate_optimal_price: NULL when the computation raises (the division
\* profit / revenue_without_iva with a zero revenue).
calculate_optimal_price(base_cost) ==
    IF RevenueNum(base_cost) = 0 THEN NULL
    ELSE [ min_margin_price |->
               RoundDiv(base_cost * (100 + IVA_PERCENTAGE), MinMarginDen),
           optimal_price |->
               RoundDiv(base_cost * (100 + IVA_PERCENTAGE), IdealMarginDen),
           competitive_price |->
               RoundDiv(base_cost * (100 + IVA_PERCENTAGE)
                            * (MinMarginDen + IdealMarginDen), RevenueDen),
           margin_percentage |-> CompetitiveMargin(base_cost),
           commission_percentage |-> COMMISSION_PERCENTAGE,
           shipping_cost |-> 0 ]

\* calculate_margin(price, base_cost, commission_percentage, shipping_cost), in bp.
\* price is in 1/100 cent (the optimizer's reduced price is not rounded to cents) and
\* commission_percentage is the nullable column; a NULL commission or a zero price
\* raises inside the function, which then returns 0.0.
calculate_margin(price, base_cost, commission_percentage, shipping_cost) ==
    IF commission_percentage = NULL \/ price = 0 THEN 0
    ELSE LET costs == (base_cost + shipping_cost) * (100 + IVA_PERCENTAGE) * 100
             keep == 100 * (100 - Val(commission_percentage) - ISR_PERCENTAGE)
         IN  IF price > 0 THEN keep - MulDivRound(costs, 100, price)
             ELSE keep + MulDivRound(costs, 100, -price)

(***************************************************************************)
(* core/scoring_engine.py                                                  *)
(***************************************************************************)
\* The linear band measured down from the ideal margin: a slip C17 has to
\* exclude.
MarginScoreReversed(margin) ==
    IF margin >= IDEAL_MARGIN_PERCENTAGE * 100 THEN 40
    ELSE IF margin >= MIN_MARGIN_PERCENTAGE * 100
         THEN 20 + ((20 * (IDEAL_MARGIN_PERCENTAGE * 100 - margin))
                     \div ((IDEAL_MARGIN_PERCENTAGE - MIN_MARGIN_PERCENTAGE) * 100))
         ELSE 0

MarginScore(margin) ==
    IF margin >= IDEAL_MARGIN_PERCENTAGE * 100 THEN 40
    ELSE IF margin >= MIN_MARGIN_PERCENTAGE * 100
         THEN 20 + ((20 * (margin - MIN_MARGIN_PERCENTAGE * 100))
                     \div ((IDEAL_MARGIN_PERCENTAGE - MIN_MARGIN_PERCENTAGE) * 100))
         ELSE 0

competition_scores(level) ==
    IF level = "low" THEN 25 ELSE IF level = "high" THEN 5 ELSE 15

\* The competition level is the placeholder "medium" whatever was analysed.
competition_level == "medium"

CompetitionScore == competition_scores(competition_level)

PriceScore(competitive_price, optimal_price) ==
    IF competitive_price > 0
    THEN LET diff == Abs(competitive_price - optimal_price) * 100
         IN  IF optimal_price < 0 \/ diff <= 5 * optimal_price THEN 20
             ELSE IF diff <= 10 * optimal_price THEN 15
             ELSE IF diff <= 15 * optimal_price THEN 10
             ELSE 5
    ELSE 10

TrendScore == 10

\* total_score of calculate_product_score; 0 when the body raises (a positive
\* competitive price over a zero optimal price).
calculate_product_score(pricing) ==
    IF pricing.competitive_price > 0 /\ pricing.optimal_price = 0 THEN 0
    ELSE MarginScore(pricing.margin_percentage) + CompetitionScore
         + PriceScore(pricing.competitive_price, pricing.optimal_price)
         + TrendScore

(***************************************************************************)
(* core/competitor_analyzer.py                                             *)
(*   items: the search result, a sequence of [price, free_shipping];       *)
(*   analyses: the competitor_analyses rows of one product, oldest first.  *)
(***************************************************************************)
SEARCH_LIMIT == 20
TOP_COMPETITORS == 10

RECURSIVE SumSeq(_)
SumSeq(xs) == IF xs = <<>> THEN 0 ELSE Head(xs) + SumSeq(Tail(xs))

RECURSIVE MinSeq(_)
MinSeq(xs) ==
    IF Len(xs) = 1 THEN Head(xs)
    ELSE LET m == MinSeq(Tail(xs)) IN IF Head(xs) < m THEN Head(xs) ELSE m

RECURSIVE MaxSeq(_)
MaxSeq(xs) ==
    IF Len(xs) = 1 THEN Head(xs)
    ELSE LET m == MaxSeq(Tail(xs)) IN IF Head(xs) > m THEN Head(xs) ELSE m

\* items[:10]
TopItems(items) ==
    SubSeq(items, 1, IF Len(items) < TOP_COMPETITORS THEN Len(items) ELSE TOP_COMPETITORS)

\* The loop of lines 36-50 counts the offers of free shipping it passes.
FreeShippingCount(items) ==
    Cardinality({i \in DOMAIN TopItems(items) : TopItems(items)[i].free_shipping})

\* stdev(prices) / mean(prices) * 100 > 20 for two prices or more, in integers:
\* 25 * k * (k * sum of squares - sum^2) > (k - 1) * sum^2.
VarianceOver20(prices) ==
    LET k == Len(prices)
        sum == SumSeq(prices)
        squares == SumSeq([i \in DOMAIN prices |-> prices[i] * prices[i]])
    IN  k > 1 /\ 25 * k * (k * squares - sum * sum) > (k - 1) * sum * sum

\* analyze_competition after the search returned items: the summary it returns
\* (the row it saves holds the same figures), NULL when it returns None.
analyze_competition(items) ==
    IF items = <<>> THEN NULL
    ELSE LET top == TopItems(items)
             priced == SelectSeq(top, LAMBDA item : item.price > 0)
             prices == [i \in DOMAIN priced |-> priced[i].price]
             count == FreeShippingCount(items)
         IN  IF prices = <<>> THEN NULL
             ELSE [ avg_price |-> RoundDiv(SumSeq(prices), Len(prices)),
                    min_price |-> MinSeq(prices),
                    max_price |-> MaxSeq(prices),
                    competition_level |->
                        IF Len(items) < 10 THEN "low"
                        ELSE IF Len(items) < 50 /\ VarianceOver20(prices) THEN "medium"
                        ELSE "high",
                    free_shipping_percentage |-> RoundDiv(count * 10000, Len(items)),
                    should_offer_free_shipping |-> count * 100 > 70 * Len(items) ]

\* get_latest_analysis: the row created last, NULL without rows.
get_latest_analysis(analyses) ==
    IF analyses = <<>> THEN NULL ELSE analyses[Len(analyses)]

should_auto_publish(score) == score >= SCORE_AUTO_PUBLISH
needs_approval(score) == SCORE_NEEDS_APPROVAL <= score /\ score < SCORE_AUTO_PUBLISH
should_reject(score) == score < SCORE_NEEDS_APPROVAL

(***************************************************************************)
(* State.                                                                  *)
(*   products, metrics      the products and product_metrics tables        *)
(*   pubs                   publish_to_ml calls suspended at create_item   *)
(*   created                successful remote creations per product        *)
(*   job                    the publish_approved_job run                   *)
(*   opt                    the optimize_products_job run                  *)
(*   lastPass               what the latest optimizer pass did, per product*)
(*   actions                the action_logs table, in insertion order      *)
(*   tests, listings, lmetrics, notified, now                              *)
(*                          ab_tests, listings, listing_metrics, the       *)
(*                          completion notifications sent, the clock (days)*)
(*   fn                     arguments and result of the pure functions     *)
(***************************************************************************)
VARIABLES products, metrics, pubs, created, job, opt, lastPass, actions,
          tests, listings, lmetrics, notified, now, fn

lifeVars == <<products, metrics, pubs, created, job, opt, lastPass, actions>>
abVars == <<tests, listings, lmetrics, notified, now>>
vars == <<products, metrics, pubs, created, job, opt, lastPass, actions,
          tests, listings, lmetrics, notified, now, fn>>

Statuses == {"pending", "needs_approval", "approved", "rejected", "published", "paused"}

\* database/models.py: the column defaults of a Product row.
NewProduct(base_cost, stock) ==
    [ status |-> "pending", score |-> 0, auto_approved |-> FALSE,
      ml_item_id |-> NULL, shopify_product_id |-> NULL,
      base_cost |-> base_cost, stock |-> stock,
      calculated_price |-> NULL, final_price |-> NULL,
      margin_percentage |-> NULL, ml_commission_percentage |-> NULL,
      shipping_cost |-> 0 ]

\* database/models.py: the column defaults of a ProductMetrics row.
NewMetrics ==
    [ total_visits |-> 0, total_sales |-> 0, ctr |-> 0, conversion_rate |-> 0,
      last_sale_date |-> NULL ]

\* Input values of the requests and of metric ingestion.
BaseCosts == {0, 100}
Stocks == {50}
ShopifyStocks == {0, 50}
MetricsInputs ==
    { [ total_visits |-> 150, total_sales |-> 0, ctr |-> 20, conversion_rate |-> 0,
        last_sale_date |-> NULL ],
      [ total_visits |-> 60, total_sales |-> 1, ctr |-> 80, conversion_rate |-> 166,
        last_sale_date |-> <<-1>> ],
      [ total_visits |-> 10, total_sales |-> 1, ctr |-> 300, conversion_rate |-> 1000,
        last_sale_date |-> <<-20>> ],
      [ total_visits |-> 500, total_sales |-> 20, ctr |-> 300, conversion_rate |-> 400,
        last_sale_date |-> <<-1>> ] }

(***************************************************************************)
(* core/product_manager.py: calculate_and_score                            *)
(***************************************************************************)
\* The thresholds with the upper one exclusive: a slip C4 has to exclude.
StatusForScoreExclusive(score) ==
    IF score > 80 THEN "approved"
    ELSE IF score >= 50 THEN "needs_approval"
    ELSE "rejected"

\* The status the score thresholds give (lines 87-93).
StatusForScore(score) ==
    IF score >= 80 THEN "approved"
    ELSE IF score >= 50 THEN "needs_approval"
    ELSE "rejected"

\* auto_approved after the evaluation: set on the first branch, untouched otherwise.
AutoApprovedForScore(score, old) == IF score >= 80 THEN TRUE ELSE old

\* The row after calculate_and_score; unchanged when pricing returns nothing.
Scored(row) ==
    LET pricing == calculate_optimal_price(row.base_cost)
    IN  IF pricing = NULL THEN row
        ELSE LET score == calculate_product_score(pricing)
             IN  [ row EXCEPT
                     !.calculated_price = <<pricing.optimal_price * 100>>,
                     !.final_price = <<pricing.competitive_price * 100>>,
                     !.margin_percentage = <<pricing.margin_percentage>>,
                     !.ml_commission_percentage = <<pricing.commission_percentage>>,
                     !.shipping_cost = pricing.shipping_cost,
                     !.score = score,
                     !.status = StatusForScore(score),
                     !.auto_approved = AutoApprovedForScore(score, @) ]

\* A store that already holds an auto-approved product when the process starts
\* (init_db creates missing tables and keeps the rows of earlier runs).
StoredProduct ==
    [ Scored(NewProduct(100, 50)) EXCEPT
        !.score = 85, !.status = "approved", !.auto_approved = TRUE,
        !.shopify_product_id = <<1>> ]

\* A session's UPDATE carries a column only when the value assigned differs from
\* the value the session loaded.
SetColumn(current, loaded, new) == IF new = loaded THEN current ELSE new

\* ProductManager.log_action: the table with one more row.
log_action(log, product_id, action_type, success) ==
    Append(log, [product_id |-> product_id, action_type |-> action_type,
                 success |-> success])

(***************************************************************************)
(* routes/products.py                                                      *)
(***************************************************************************)
\* POST /: ProductManager.create_product (an existing SKU returns the existing
\* row), then calculate_and_score on the row.  The product row is committed
\* before the metrics row is added; when that second insert fails
\* (metrics_insert), the manager returns None and the route answers 400 without
\* evaluating the product.
create_product(p, base_cost, stock, metrics_insert) ==
    /\ products[p] # NULL => metrics_insert = "ok"
    /\ products' = [products EXCEPT
                      ![p] = IF @ # NULL THEN Scored(@)
                             ELSE IF metrics_insert = "ok"
                             THEN Scored(NewProduct(base_cost, stock))
                             ELSE NewProduct(base_cost, stock)]
    /\ metrics' = [metrics EXCEPT
                     ![p] = IF products[p] = NULL /\ metrics_insert = "ok"
                            THEN NewMetrics ELSE @]
    /\ UNCHANGED <<pubs, created, job, opt, lastPass, actions, abVars, fn>>

\* POST /{id}/calculate
recalculate_product(p) ==
    /\ products[p] # NULL
    /\ products' = [products EXCEPT ![p] = Scored(@)]
    /\ UNCHANGED <<metrics, pubs, created, job, opt, lastPass, actions, abVars, fn>>

\* POST /{id}/approve: sets approved, then publishes when score >= 80.
approve_product(p) ==
    /\ products[p] # NULL
    /\ products' = [products EXCEPT ![p].status = "approved"]
    /\ IF products[p].score >= 80
       THEN /\ Len(pubs) < MaxInFlight
            /\ pubs' = Append(pubs, [pid |-> p, caller |-> "approve", snap |-> "approved"])
       ELSE UNCHANGED pubs
    /\ Len(actions) < MaxLog
    /\ actions' = log_action(actions, p, "approved", TRUE)
    /\ UNCHANGED <<metrics, created, job, opt, lastPass, abVars, fn>>

\* POST /{id}/reject
reject_product(p) ==
    /\ products[p] # NULL
    /\ products' = [products EXCEPT ![p].status = "rejected"]
    /\ Len(actions) < MaxLog
    /\ actions' = log_action(actions, p, "rejected", TRUE)
    /\ UNCHANGED <<metrics, pubs, created, job, opt, lastPass, abVars, fn>>

\* POST /{id}/publish: publish_to_ml up to its await on create_item.
publish_product(p) ==
    /\ products[p] # NULL
    /\ Len(pubs) < MaxInFlight
    /\ pubs' = Append(pubs, [pid |-> p, caller |-> "route", snap |-> products[p].status])
    /\ UNCHANGED <<products, metrics, created, job, opt, lastPass, actions, abVars, fn>>

\* DELETE /{id}: the row goes, and with it (cascade "all, delete-orphan") its
\* metrics row, its listings and its action_logs rows.
delete_product(p) ==
    /\ products[p] # NULL
    /\ products' = [products EXCEPT ![p] = NULL]
    /\ metrics' = [metrics EXCEPT ![p] = NULL]
    /\ actions' = SelectSeq(actions, LAMBDA a : a.product_id # p)
    /\ listings' = [i \in 1..Len(listings) |->
                       IF listings[i] # NULL /\ listings[i].product_id = p
                       THEN NULL ELSE listings[i]]
    /\ UNCHANGED <<pubs, created, job, opt, lastPass, tests, lmetrics, notified, now, fn>>

(***************************************************************************)
(* core/product_manager.py: publish_to_ml after create_item returns        *)
(***************************************************************************)
RemoveAt(seq, i) == SubSeq(seq, 1, i - 1) \o SubSeq(seq, i + 1, Len(seq))

\* The success branch without the item id assignment: a slip C3 has to exclude.
PublishedNoItem(row, call, item) ==
    [ row EXCEPT !.status = SetColumn(@, call.snap, "published") ]

\* The row after the success branch: the new item id, status published.
Published(row, call, item) ==
    [ row EXCEPT !.ml_item_id = <<item>>,
                 !.status = SetColumn(@, call.snap, "published") ]

\* A job registered with room for a second instance: a slip C13 has to exclude.
max_instances_unlimited == 1 + 1

\* scheduler/jobs.py: add_job is called without max_instances, so each job keeps
\* the scheduler's default of one running instance; a tick that finds the job
\* at that number is skipped.
max_instances == 1

IdleJob == [pc |-> "idle", queue |-> <<>>, instances |-> 0]

RECURSIVE SkipMissing(_, _)
\* The queue from its first product that still has a row (publish_to_ml returns
\* at once for a product it does not find).
SkipMissing(queue, prods) ==
    IF queue = <<>> \/ prods[Head(queue)] # NULL THEN queue
    ELSE SkipMissing(Tail(queue), prods)

\* The job's loop after one publish_to_ml returned: idle at the end of the
\* list, otherwise the next product's call (its row re-read after the commit).
JobContinues(rest, prods) ==
    LET queue == SkipMissing(job.queue, prods)
    IN  IF queue = <<>>
        THEN /\ job' = [pc |-> "idle", queue |-> <<>>, instances |-> job.instances - 1]
             /\ pubs' = rest
        ELSE /\ job' = [pc |-> "await", queue |-> Tail(queue), instances |-> job.instances]
             /\ pubs' = Append(rest, [pid |-> Head(queue), caller |-> "job",
                                      snap |-> prods[Head(queue)].status])

\* create_item returns to publish_to_ml: an item ("ok"), nothing ("fail") or an
\* exception ("raise").  A failure is logged only while the bounded log keeps
\* a row free for the creation that succeeds.
create_item_returns(i, result) ==
    /\ i \in 1..Len(pubs)
    /\ Len(actions) < (IF result = "ok" THEN MaxLog ELSE MaxLog - 1)
    /\ LET call == pubs[i]
           ok == result = "ok" /\ products[call.pid] # NULL
           prods == IF ok
                    THEN [products EXCEPT
                            ![call.pid] = Published(@, call, Len(created) + 1)]
                    ELSE products
       IN  /\ result = "ok" => Len(created) < MaxItems
           /\ products' = prods
           /\ created' = IF result = "ok" THEN Append(created, call.pid) ELSE created
           /\ actions' = IF ok THEN log_action(actions, call.pid, "published", TRUE)
                         ELSE log_action(actions, call.pid, "publish_failed", FALSE)
           /\ IF call.caller = "job"
              THEN JobContinues(RemoveAt(pubs, i), prods)
              ELSE pubs' = RemoveAt(pubs, i) /\ UNCHANGED job
    /\ UNCHANGED <<metrics, opt, lastPass, abVars, fn>>

(***************************************************************************)
(* scheduler/jobs.py: publish_approved_job                                 *)
(***************************************************************************)
RECURSIVE InIdOrder(_)
\* The rows of a query, as the list of their ids in id order.
InIdOrder(S) ==
    IF S = {} THEN <<>>
    ELSE LET m == CHOOSE x \in S : \A y \in S : x <= y
         IN  <<m>> \o InIdOrder(S \ {m})

\* The job's query leaving out a product with a logged failed creation: a slip
\* C29 has to exclude.
AutoPublishableOnce(p) ==
    /\ products[p] # NULL
    /\ products[p].status = "approved"
    /\ products[p].auto_approved
    /\ products[p].ml_item_id = NULL
    /\ ~ \E k \in 1..Len(actions) :
            actions[k].product_id = p /\ actions[k].action_type = "publish_failed"

AutoPublishable(p) ==
    /\ products[p] # NULL
    /\ products[p].status = "approved"
    /\ products[p].auto_approved
    /\ products[p].ml_item_id = NULL

\* One tick: the query, then publish_to_ml of the first product up to its await.
\* A tick while the previous run is in flight is skipped.
publish_approved_job ==
    /\ job.instances < max_instances
    /\ LET sel == InIdOrder({p \in PIDS : AutoPublishable(p)})
       IN  IF sel = <<>> THEN UNCHANGED <<job, pubs>>
           ELSE /\ Len(pubs) < MaxInFlight
                /\ job' = [pc |-> "await", queue |-> Tail(sel),
                           instances |-> job.instances + 1]
                /\ pubs' = Append(pubs, [pid |-> Head(sel), caller |-> "job",
                                         snap |-> products[Head(sel)].status])
    /\ UNCHANGED <<products, metrics, created, opt, lastPass, actions, abVars, fn>>

(***************************************************************************)
(* core/optimizer.py                                                       *)
(***************************************************************************)
\* _should_pause: "yes", "no", or "raise" when the margin comparison meets a
\* product that was never priced.
should_pause(row, m) ==
    IF /\ m.last_sale_date # NULL
       /\ now - Val(m.last_sale_date) >= PAUSE_NO_SALES_DAYS
       /\ m.total_visits < PAUSE_MIN_VISITS
    THEN "yes"
    ELSE IF m.total_visits > 100 /\ m.ctr < PAUSE_MIN_CTR THEN "yes"
    ELSE IF row.margin_percentage = NULL THEN "raise"
    ELSE IF Val(row.margin_percentage) < MIN_MARGIN_PERCENTAGE * 100 THEN "yes"
    ELSE "no"

should_adjust_price(m) ==
    \/ m.total_visits > 50 /\ m.ctr < 100
    \/ m.total_visits > 200 /\ m.conversion_rate < 100

should_activate_ads(row, m) ==
    /\ m.total_sales >= ADS_MIN_SALES
    /\ Val(row.margin_percentage) >= ADS_MIN_MARGIN
    /\ m.ctr >= ADS_MIN_CTR

\* The ROAS figure is the placeholder 0, so the predicate never holds.
should_pause_ads(row, m) == FALSE

should_scale(row, m) ==
    /\ m.total_sales >= SCALE_MIN_SALES_7DAYS
    /\ m.conversion_rate >= SCALE_MIN_CONVERSION
    /\ Val(row.margin_percentage) >= (MIN_MARGIN_PERCENTAGE + 5) * 100
    /\ row.stock >= SCALE_MIN_STOCK

\* The factor with the sign of the percentage turned round: a slip C30 has to
\* exclude.
RaisedPrice(price) == RoundDiv(price * (100 + PRICE_REDUCTION_PERCENTAGE), 100)

\* new_price of _adjust_price (not rounded to cents by the code).
ReducedPrice(price) == RoundDiv(price * (100 - PRICE_REDUCTION_PERCENTAGE), 100)

\* What the predicates after the price step do: notifications only.
TailActs(row, m) ==
    (IF should_activate_ads(row, m) THEN {"ads_activated"} ELSE {})
    \cup (IF should_pause_ads(row, m) THEN {"ads_paused"} ELSE {})
    \cup (IF should_scale(row, m) THEN {"scaled"} ELSE {})

Plan(kind, sp, price, margin) ==
    [kind |-> kind, should_pause |-> sp, new_price |-> price, new_margin |-> margin]

\* _adjust_price without the minimum-margin check: a slip C20 has to exclude.
AdjustPlanNoMarginCheck(row) ==
    IF row.final_price = NULL THEN Plan("price_error", FALSE, NULL, NULL)
    ELSE LET new_price == ReducedPrice(Val(row.final_price))
             new_margin == calculate_margin(new_price, row.base_cost,
                               row.ml_commission_percentage, row.shipping_cost)
         IN  IF row.ml_item_id # NULL
             THEN Plan("price_call", FALSE, <<new_price>>, <<new_margin>>)
             ELSE Plan("price_local", FALSE, <<new_price>>, <<new_margin>>)

\* _adjust_price up to its remote call.
AdjustPlan(row) ==
    IF row.final_price = NULL THEN Plan("price_error", FALSE, NULL, NULL)
    ELSE LET new_price == ReducedPrice(Val(row.final_price))
             new_margin == calculate_margin(new_price, row.base_cost,
                               row.ml_commission_percentage, row.shipping_cost)
         IN  IF new_margin < MIN_MARGIN_PERCENTAGE * 100
             THEN Plan("price_abort", FALSE, <<new_price>>, <<new_margin>>)
             ELSE IF row.ml_item_id # NULL
             THEN Plan("price_call", FALSE, <<new_price>>, <<new_margin>>)
             ELSE Plan("price_local", FALSE, <<new_price>>, <<new_margin>>)

\* optimize_product without the return after the pause branch, the price step
\* running whenever its predicate holds: a slip C10 has to exclude.
PassPlanNoReturn(row, m) ==
    IF row = NULL \/ m = NULL THEN Plan("skip", FALSE, NULL, NULL)
    ELSE IF row.status # "published" THEN Plan("skip", FALSE, NULL, NULL)
    ELSE LET sp == should_pause(row, m)
         IN  IF sp = "raise" THEN Plan("error", FALSE, NULL, NULL)
             ELSE IF should_adjust_price(m)
             THEN [AdjustPlan(row) EXCEPT !.should_pause = (sp = "yes")]
             ELSE IF sp = "yes"
             THEN Plan(IF row.ml_item_id # NULL THEN "pause_call" ELSE "pause_local",
                       TRUE, NULL, NULL)
             ELSE Plan("none", FALSE, NULL, NULL)

\* optimize_product without the status check on the row it loaded: a slip C18
\* has to exclude.
PassPlanAnyStatus(row, m) ==
    IF row = NULL \/ m = NULL THEN Plan("skip", FALSE, NULL, NULL)
    ELSE LET sp == should_pause(row, m)
         IN  IF sp = "raise" THEN Plan("error", FALSE, NULL, NULL)
             ELSE IF sp = "yes"
             THEN Plan(IF row.ml_item_id # NULL THEN "pause_call" ELSE "pause_local",
                       TRUE, NULL, NULL)
             ELSE IF should_adjust_price(m) THEN AdjustPlan(row)
             ELSE Plan("none", FALSE, NULL, NULL)

\* optimize_product up to its first remote call (or to its end when it makes none).
PassPlan(row, m) ==
    IF row = NULL \/ m = NULL THEN Plan("skip", FALSE, NULL, NULL)
    ELSE IF row.status # "published" THEN Plan("skip", FALSE, NULL, NULL)
    ELSE LET sp == should_pause(row, m)
         IN  IF sp = "raise" THEN Plan("error", FALSE, NULL, NULL)
             ELSE IF sp = "yes"
             THEN Plan(IF row.ml_item_id # NULL THEN "pause_call" ELSE "pause_local",
                       TRUE, NULL, NULL)
             ELSE IF should_adjust_price(m) THEN AdjustPlan(row)
             ELSE Plan("none", FALSE, NULL, NULL)

Pass(plan, acts) == [kind |-> plan.kind, should_pause |-> plan.should_pause, acts |-> acts]

\* lastPass of a product the latest sweep did not reach.
NoPass == [kind |-> "never", should_pause |-> FALSE, acts |-> {}]

\* start: the products the sweep's query returned.
IdleOpt ==
    [pc |-> "idle", pid |-> 0, queue |-> <<>>, plan |-> Plan("none", FALSE, NULL, NULL),
     snap |-> NULL, snapm |-> NULL, start |-> {}, instances |-> 0]

\* _pause_product after update_item returned (its result is not looked at).
Paused(row, snap) == [row EXCEPT !.status = SetColumn(@, snap.status, "paused")]

\* _adjust_price after update_item returned (its result is not looked at).
Repriced(row, snap, plan) ==
    [ row EXCEPT
        !.final_price = SetColumn(@, snap.final_price, plan.new_price),
        !.margin_percentage = SetColumn(@, snap.margin_percentage, plan.new_margin) ]

RECURSIVE Sweep(_, _, _, _)
\* optimize_all_products from the head of queue on, up to the next remote call:
\* the store, the record of the passes and the state of the run.
Sweep(queue, prods, passes, start) ==
    IF queue = <<>> THEN [products |-> prods, lastPass |-> passes, opt |-> IdleOpt]
    ELSE LET p == Head(queue)
             row == prods[p]
             m == metrics[p]
             plan == PassPlan(row, m)
         IN  IF plan.kind \in {"pause_call", "price_call"}
             THEN [ products |-> prods,
                    lastPass |-> [passes EXCEPT ![p] = Pass(plan,
                        {IF plan.kind = "pause_call" THEN "pause_remote" ELSE "price_remote"})],
                    opt |-> [pc |-> plan.kind, pid |-> p, queue |-> Tail(queue),
                             plan |-> plan, snap |-> row, snapm |-> m,
                             start |-> start, instances |-> 0] ]
             ELSE IF plan.kind = "pause_local"
             THEN Sweep(Tail(queue), [prods EXCEPT ![p] = Paused(@, row)],
                        [passes EXCEPT ![p] = Pass(plan, {"paused", "notified"})], start)
             ELSE IF plan.kind = "price_local"
             THEN Sweep(Tail(queue), [prods EXCEPT ![p] = Repriced(@, row, plan)],
                        [passes EXCEPT ![p] = Pass(plan,
                            {"price_adjusted", "notified"}
                                \cup TailActs(Repriced(row, row, plan), m))], start)
             ELSE IF plan.kind = "price_abort"
             THEN Sweep(Tail(queue), prods,
                        [passes EXCEPT ![p] = Pass(plan,
                            {"price_aborted"} \cup TailActs(row, m))], start)
             ELSE IF plan.kind \in {"none", "price_error"}
             THEN Sweep(Tail(queue), prods,
                        [passes EXCEPT ![p] = Pass(plan, TailActs(row, m))], start)
             ELSE Sweep(Tail(queue), prods, [passes EXCEPT ![p] = Pass(plan, {})], start)

\* optimize_product on a row the session holds alone (nothing interleaved at
\* the remote call, which ends as result says): the row it leaves.
optimize_product(row, m, result) ==
    LET plan == PassPlan(row, m)
    IN  IF plan.kind = "pause_local" \/ (plan.kind = "pause_call" /\ result # "raise")
        THEN Paused(row, row)
        ELSE IF plan.kind = "price_local" \/ (plan.kind = "price_call" /\ result # "raise")
        THEN Repriced(row, row, plan)
        ELSE row

\* running: the instances of the job in flight, this run included.
SweepStep(queue, prods, passes, start, running) ==
    LET next == Sweep(queue, prods, passes, start)
    IN  /\ products' = next.products
        /\ lastPass' = next.lastPass
        /\ opt' = [next.opt EXCEPT
                      !.instances = IF next.opt.pc = "idle" THEN running - 1 ELSE running]

\* scheduler/jobs.py optimize_products_job: one tick, skipped while a run is in flight.
optimize_products_job ==
    /\ opt.instances < max_instances
    /\ LET start == {p \in PIDS : products[p] # NULL /\ products[p].status = "published"}
       IN  SweepStep(InIdOrder(start), products, [p \in PIDS |-> NoPass], start,
                     opt.instances + 1)
    /\ UNCHANGED <<metrics, pubs, created, job, actions, abVars, fn>>

\* update_item returns to _pause_product or to _adjust_price: "ok" and "fail"
\* are return values, "raise" is an exception; then the rest of the pass and
\* the rest of the sweep up to the next remote call.
ResumeSweep(result, queue) ==
    /\ LET p == opt.pid
           row == products[p]
           done == result # "raise" /\ row # NULL
           acts == lastPass[p].acts
       IN  IF opt.pc = "pause_call"
           THEN SweepStep(queue,
                    IF done THEN [products EXCEPT ![p] = Paused(@, opt.snap)] ELSE products,
                    [lastPass EXCEPT ![p].acts =
                        acts \cup (IF done THEN {"paused", "notified"} ELSE {})],
                    opt.start, opt.instances)
           ELSE SweepStep(queue,
                    IF done THEN [products EXCEPT ![p] = Repriced(@, opt.snap, opt.plan)]
                    ELSE products,
                    [lastPass EXCEPT ![p].acts =
                        acts \cup (IF done
                                   THEN {"price_adjusted", "notified"}
                                        \cup (IF metrics[p] = NULL THEN {}
                                              ELSE TailActs(Repriced(row, opt.snap, opt.plan),
                                                            metrics[p]))
                                   ELSE IF row = NULL THEN {}
                                   ELSE TailActs(opt.snap, opt.snapm))],
                    opt.start, opt.instances)
    /\ UNCHANGED <<metrics, pubs, created, job, actions, abVars, fn>>

\* The return of update_item with an exception that ends the whole sweep (no
\* try/except around the remote call or the pass): a slip C12 has to exclude.
update_item_raise_ends_sweep(result) ==
    /\ opt.pc \in {"pause_call", "price_call"}
    /\ ResumeSweep(result, IF result = "raise" THEN <<>> ELSE opt.queue)

update_item_returns(result) ==
    /\ opt.pc \in {"pause_call", "price_call"}
    /\ ResumeSweep(result, opt.queue)

\* sync_stock_with_shopify (sync_stock_job and POST /sync-stock/{id}): the
\* storefront's quantity replaces the stock of a product linked to the storefront.
sync_stock(p, quantity) ==
    /\ products[p] # NULL
    /\ products[p].shopify_product_id # NULL
    /\ products' = [products EXCEPT ![p].stock = quantity]
    /\ UNCHANGED <<metrics, pubs, created, job, opt, lastPass, actions, abVars, fn>>

\* Metric ingestion (monitor_metrics_job's collaborator) rewrites a metrics row.
ingest_metrics(p, m) ==
    /\ metrics[p] # NULL
    /\ metrics' = [metrics EXCEPT ![p] = m]
    /\ UNCHANGED <<products, pubs, created, job, opt, lastPass, actions, abVars, fn>>

(***************************************************************************)
(* core/ab_testing.py                                                      *)
(*   listings[i], tests[t]: the rows with ids i and t; lmetrics: the       *)
(*   listing_metrics rows in insertion order.                              *)
(***************************************************************************)
ItemIds == 1..(2 * MaxTests)

NewListing(product_id, ml_item_id, variant) ==
    [ product_id |-> product_id, ml_item_id |-> ml_item_id, is_ab_test |-> TRUE,
      ab_variant |-> variant, status |-> "active", ended_at |-> NULL ]

NewTest(product_id, a, b, started_at) ==
    [ product_id |-> product_id, variant_a_id |-> a, variant_b_id |-> b,
      status |-> "running", winner |-> NULL, results |-> NULL,
      started_at |-> started_at, ended_at |-> NULL ]

\* The ml_item_id values the listings table holds (the column is unique).
TakenItems(ls) == {ls[i].ml_item_id : i \in {j \in 1..Len(ls) : ls[j] # NULL}}

\* The except branch without self.db.rollback(), the flushed rows reaching the
\* store: a slip C24 has to exclude.
rollback_keeps_flushed(committed, flushed) == flushed

\* self.db.rollback(): the tables as last committed, whatever was flushed.
rollback(committed, flushed) == committed

\* create_test: listing A and listing B are flushed, then the test is added and
\* all three are committed; an unknown product ends the call before any insert,
\* a failing insert (a taken ml_item_id, or the test insert when test_insert says
\* so) raises and the except branch rolls back.
create_test(product_id, item_a, item_b, test_insert) ==
    /\ Len(tests) < MaxTests
    /\ LET committed == [listings |-> listings, tests |-> tests]
           with_a == [committed EXCEPT
                         !.listings = Append(@, NewListing(product_id, item_a, "A"))]
           with_b == [with_a EXCEPT
                         !.listings = Append(@, NewListing(product_id, item_b, "B"))]
           with_test == [with_b EXCEPT
                            !.tests = Append(@, NewTest(product_id, Len(listings) + 1,
                                                        Len(listings) + 2, now))]
           after == IF products[product_id] = NULL THEN committed
                    ELSE IF item_a \in TakenItems(listings)
                    THEN rollback(committed, committed)
                    ELSE IF item_b \in TakenItems(with_a.listings)
                    THEN rollback(committed, with_a)
                    ELSE IF test_insert = "fail" THEN rollback(committed, with_b)
                    ELSE with_test
       IN  /\ listings' = after.listings
           /\ tests' = after.tests
    /\ UNCHANGED <<lifeVars, lmetrics, notified, now, fn>>

RECURSIVE SumRows(_, _, _)
\* sum(m.<column> for m in metrics) over the rows of one listing.
SumRows(rows, listing_id, column) ==
    IF rows = <<>> THEN 0
    ELSE (IF Head(rows).listing_id = listing_id THEN Head(rows)[column] ELSE 0)
         + SumRows(Tail(rows), listing_id, column)

\* The metrics dict; conversion_rate = round(sales / visits * 100, 2), in bp.
MetricsOf(visits, sales, revenue) ==
    [ visits |-> visits, sales |-> sales, revenue |-> revenue,
      conversion_rate |-> IF visits > 0 THEN RoundDiv(sales * 10000, visits) ELSE 0 ]

calculate_metrics(rows, listing_id) ==
    MetricsOf(SumRows(rows, listing_id, "visits"), SumRows(rows, listing_id, "sales"),
              SumRows(rows, listing_id, "revenue"))

\* x > y * 1.1
Beats(x, y) == 10 * x > 11 * y

\* _determine_winner with the 1.1 factor missing from B's sales comparison: the
\* slip that C8 must detect.
determine_winner_lopsided(metrics_a, metrics_b) ==
    IF Beats(metrics_a.conversion_rate, metrics_b.conversion_rate) THEN "A"
    ELSE IF Beats(metrics_b.conversion_rate, metrics_a.conversion_rate) THEN "B"
    ELSE IF Beats(metrics_a.sales, metrics_b.sales) THEN "A"
    ELSE IF metrics_b.sales > metrics_a.sales THEN "B"
    ELSE IF Beats(metrics_a.revenue, metrics_b.revenue) THEN "A"
    ELSE IF Beats(metrics_b.revenue, metrics_a.revenue) THEN "B"
    ELSE "tie"

\* _determine_winner
determine_winner(metrics_a, metrics_b) ==
    IF Beats(metrics_a.conversion_rate, metrics_b.conversion_rate) THEN "A"
    ELSE IF Beats(metrics_b.conversion_rate, metrics_a.conversion_rate) THEN "B"
    ELSE IF Beats(metrics_a.sales, metrics_b.sales) THEN "A"
    ELSE IF Beats(metrics_b.sales, metrics_a.sales) THEN "B"
    ELSE IF Beats(metrics_a.revenue, metrics_b.revenue) THEN "A"
    ELSE IF Beats(metrics_b.revenue, metrics_a.revenue) THEN "B"
    ELSE "tie"

\* The checks of evaluate_test before it determines a winner (lines 83-112).
DurationElapsed(test, today) == today - test.started_at >= AB_TEST_DURATION_DAYS

\* The visits gate with "and" for "or": a slip C6 has to exclude.
EnoughVisitsEither(metrics_a, metrics_b) ==
    ~ (metrics_a.visits < AB_TEST_MIN_VISITS /\ metrics_b.visits < AB_TEST_MIN_VISITS)

EnoughVisits(metrics_a, metrics_b) ==
    ~ (metrics_a.visits < AB_TEST_MIN_VISITS \/ metrics_b.visits < AB_TEST_MIN_VISITS)

EnoughSales(metrics_a, metrics_b) ==
    ~ (metrics_a.sales < AB_TEST_MIN_SALES /\ metrics_b.sales < AB_TEST_MIN_SALES)

\* The entry check without the status test: a slip C5 has to exclude.
EvaluableAnyStatus(test_row, today) == DurationElapsed(test_row, today)

Evaluable(test_row, today) ==
    /\ test_row.status = "running"
    /\ DurationElapsed(test_row, today)

Ready(ts, ls, t) ==
    /\ t \in 1..Len(ts)
    /\ Evaluable(ts[t], now)
    /\ ts[t].variant_a_id \in 1..Len(ls) /\ ls[ts[t].variant_a_id] # NULL
    /\ ts[t].variant_b_id \in 1..Len(ls) /\ ls[ts[t].variant_b_id] # NULL
    /\ EnoughVisits(calculate_metrics(lmetrics, ts[t].variant_a_id),
                    calculate_metrics(lmetrics, ts[t].variant_b_id))
    /\ EnoughSales(calculate_metrics(lmetrics, ts[t].variant_a_id),
                   calculate_metrics(lmetrics, ts[t].variant_b_id))

\* The listing the given winner retires.
PausedListing(listing) == [listing EXCEPT !.status = "paused", !.ended_at = <<now>>]

\* The pause branches exchanged: a slip C9 has to exclude.
LoserOfSwapped(test_row, winner) ==
    IF winner = "A" THEN {test_row.variant_a_id}
    ELSE IF winner = "B" THEN {test_row.variant_b_id}
    ELSE {}

LoserOf(test_row, winner) ==
    IF winner = "A" THEN {test_row.variant_b_id}
    ELSE IF winner = "B" THEN {test_row.variant_a_id}
    ELSE {}

\* evaluate_test on the tables (ts, ls, sent): the tables after the call.
Evaluated(ts, ls, sent, t) ==
    IF ~ Ready(ts, ls, t) THEN [tests |-> ts, listings |-> ls, notified |-> sent]
    ELSE LET metrics_a == calculate_metrics(lmetrics, ts[t].variant_a_id)
             metrics_b == calculate_metrics(lmetrics, ts[t].variant_b_id)
             winner == determine_winner(metrics_a, metrics_b)
         IN  [ tests |-> [ts EXCEPT ![t] =
                   [@ EXCEPT !.status = "completed", !.winner = <<winner>>,
                             !.ended_at = <<now>>,
                             !.results = [variant_a |-> metrics_a,
                                          variant_b |-> metrics_b,
                                          winner |-> winner]]],
               listings |-> [i \in 1..Len(ls) |->
                   IF i \in LoserOf(ts[t], winner) THEN PausedListing(ls[i]) ELSE ls[i]],
               notified |-> IF products[ts[t].product_id] # NULL
                            THEN Append(sent, [test |-> t, winner |-> winner])
                            ELSE sent ]

evaluate_test(t) ==
    /\ LET after == Evaluated(tests, listings, notified, t)
       IN  /\ tests' = after.tests
           /\ listings' = after.listings
           /\ notified' = after.notified
    /\ UNCHANGED <<lifeVars, lmetrics, now, fn>>

RECURSIVE EvaluatedAll(_, _, _, _)
\* The loop of evaluate_ab_tests_job over the queried test ids.
EvaluatedAll(ts, ls, sent, queue) ==
    IF queue = <<>> THEN [tests |-> ts, listings |-> ls, notified |-> sent]
    ELSE LET after == Evaluated(ts, ls, sent, Head(queue))
         IN  EvaluatedAll(after.tests, after.listings, after.notified, Tail(queue))

\* scheduler/jobs.py evaluate_ab_tests_job: the daily sweep over running tests.
evaluate_ab_tests_job ==
    /\ LET after == EvaluatedAll(tests, listings, notified,
                        InIdOrder({t \in 1..Len(tests) : tests[t].status = "running"}))
       IN  /\ tests' = after.tests
           /\ listings' = after.listings
           /\ notified' = after.notified
    /\ UNCHANGED <<lifeVars, lmetrics, now, fn>>

\* Rows the metrics collaborator appends to listing_metrics.
RowInputs ==
    { [visits |-> 1000, sales |-> 50, revenue |-> 500000],
      [visits |-> 1000, sales |-> 30, revenue |-> 300000],
      [visits |-> 150, sales |-> 2, revenue |-> 20000],
      [visits |-> 60, sales |-> 6, revenue |-> 60000] }

ingest_listing_metrics(i, row) ==
    /\ i \in 1..Len(listings)
    /\ Len(lmetrics) < MaxRows
    /\ lmetrics' = Append(lmetrics, [listing_id |-> i, visits |-> row.visits,
                                     sales |-> row.sales, revenue |-> row.revenue])
    /\ UNCHANGED <<lifeVars, tests, listings, notified, now, fn>>

\* A day passes.
Tick ==
    /\ now < MaxDay
    /\ now' = now + 1
    /\ UNCHANGED <<lifeVars, tests, listings, lmetrics, notified, fn>>

(***************************************************************************)
(* Product lifecycle and optimizer.                                        *)
(***************************************************************************)
LifeIdle ==
    /\ products \in [PIDS -> {NULL, StoredProduct}]
    /\ \A p \in PIDS \ Catalog : products[p] = NULL
    /\ metrics = [p \in PIDS |-> IF products[p] = NULL THEN NULL ELSE NewMetrics]
    /\ pubs = <<>>
    /\ created = <<>>
    /\ job = IdleJob
    /\ opt = IdleOpt
    /\ lastPass = [p \in PIDS |-> NoPass]
    /\ actions = <<>>

ABIdle ==
    /\ tests = <<>>
    /\ listings = <<>>
    /\ lmetrics = <<>>
    /\ notified = <<>>
    /\ now = 0

Init ==
    /\ LifeIdle
    /\ ABIdle
    /\ fn = NULL

Next ==
    \/ \E p \in Catalog, b \in BaseCosts, k \in Stocks, r \in {"ok", "fail"} :
          create_product(p, b, k, r)
    \/ \E p \in Catalog : recalculate_product(p)
    \/ \E p \in Catalog : approve_product(p)
    \/ \E p \in Catalog : reject_product(p)
    \/ \E p \in Catalog : publish_product(p)
    \/ \E p \in Catalog : delete_product(p)
    \/ \E i \in 1..MaxInFlight, r \in {"ok", "fail", "raise"} : create_item_returns(i, r)
    \/ publish_approved_job
    \/ optimize_products_job
    \/ \E r \in {"ok", "fail", "raise"} : update_item_returns(r)
    \/ \E p \in Catalog, m \in MetricsInputs : ingest_metrics(p, m)
    \/ \E p \in Catalog, q \in ShopifyStocks : sync_stock(p, q)

Spec == Init /\ [][Next]_vars

(***************************************************************************)
(* The optimizer's sweep over a store that holds published products.       *)
(***************************************************************************)
\* A product some earlier run priced and published as the given remote item.
ListedProduct(item) ==
    [ Scored(NewProduct(100, 50)) EXCEPT !.status = "published", !.ml_item_id = <<item>> ]

SweepInit ==
    /\ products = [p \in PIDS |-> ListedProduct(p)]
    /\ metrics \in [PIDS -> MetricsInputs]
    /\ pubs = <<>>
    /\ created = [p \in PIDS |-> p]
    /\ job = IdleJob
    /\ opt = IdleOpt
    /\ lastPass = [p \in PIDS |-> NoPass]
    /\ actions = [p \in PIDS |-> [product_id |-> p, action_type |-> "published",
                                   success |-> TRUE]]
    /\ ABIdle
    /\ fn = NULL

SweepNext ==
    \/ optimize_products_job
    \/ \E r \in {"ok", "fail", "raise"} : update_item_returns(r)
    \/ \E p \in PIDS, m \in MetricsInputs : ingest_metrics(p, m)
    \/ \E p \in PIDS : reject_product(p)
    \/ \E p \in PIDS : delete_product(p)

SpecSweep == SweepInit /\ [][SweepNext]_vars

(***************************************************************************)
(* The auto-publish job on its own: an auto-approved product waiting to be *)
(* published and a product that waits for a manual decision; no request    *)
(* rejects, re-evaluates or deletes.  The scheduler's interval trigger    *)
(* keeps ticking, an awaited remote call returns, and the marketplace does *)
(* not refuse for ever.                                                    *)
(***************************************************************************)
RetryInit ==
    /\ products = [p \in PIDS |-> IF p = 1 THEN StoredProduct
                                  ELSE Scored(NewProduct(100, 50))]
    /\ metrics = [p \in PIDS |-> NewMetrics]
    /\ pubs = <<>>
    /\ created = <<>>
    /\ job = IdleJob
    /\ opt = IdleOpt
    /\ lastPass = [p \in PIDS |-> NoPass]
    /\ actions = <<>>
    /\ ABIdle
    /\ fn = NULL

RetryNext ==
    \/ publish_approved_job
    \/ \E i \in 1..MaxInFlight, r \in {"ok", "fail", "raise"} : create_item_returns(i, r)
    \/ \E p \in PIDS, m \in MetricsInputs : ingest_metrics(p, m)
    \/ \E p \in PIDS, q \in ShopifyStocks : sync_stock(p, q)

SpecRetry ==
    /\ RetryInit
    /\ [][RetryNext]_vars
    /\ WF_vars(publish_approved_job)
    /\ WF_vars(\E i \in 1..MaxInFlight, r \in {"ok", "fail", "raise"} :
                  create_item_returns(i, r))
    /\ SF_vars(\E i \in 1..MaxInFlight : create_item_returns(i, "ok"))

(***************************************************************************)
(* A/B test evaluator.  The store may already hold a cancelled test (the   *)
(* evaluator never writes that status; models.py documents it).            *)
(***************************************************************************)
CancelledTest == [NewTest(1, 1, 2, 0) EXCEPT !.status = "cancelled", !.ended_at = <<0>>]

ABInit ==
    /\ LifeIdle
    /\ \/ tests = <<>> /\ listings = <<>>
       \/ /\ products[1] # NULL
          /\ tests = <<CancelledTest>>
          /\ listings = <<NewListing(1, 1, "A"), NewListing(1, 2, "B")>>
    /\ lmetrics = <<>>
    /\ notified = <<>>
    /\ now = 0
    /\ fn = NULL

ABNext ==
    \/ \E p \in PIDS, a \in ItemIds, b \in ItemIds, r \in {"ok", "fail"} :
          create_test(p, a, b, r)
    \/ \E t \in 1..MaxTests : evaluate_test(t)
    \/ evaluate_ab_tests_job
    \/ \E i \in ItemIds, row \in RowInputs : ingest_listing_metrics(i, row)
    \/ Tick

SpecAB == ABInit /\ [][ABNext]_vars

(***************************************************************************)
(* The pure functions, applied to arguments drawn from bounded sets.       *)
(***************************************************************************)
MaxScore == 100

WinnerArgs ==
    { [visits |-> v, sales |-> s, revenue |-> r, conversion_rate |-> c] :
        v \in {1000, 1100}, s \in {0, 30, 33, 50}, r \in {0, 300000, 330000},
        c \in {0, 300, 330, 500} }

MaxCost == 40         \* base costs from -MaxCost to MaxCost cents

\* margin_percentage values (bp) and (competitive_price, optimal_price) pairs
\* (cents) of the pricing dicts handed to calculate_product_score.
MarginArgs == {-500, 0, 2999, 3000, 3001, 3049, 3050, 3549, 3999, 4000, 4001, 10000}
PriceArgs == {<<0, 0>>, <<-230, -252>>, <<100, 100>>, <<100, 105>>, <<100, 108>>,
              <<100, 112>>, <<100, 125>>, <<230, 252>>, <<230, 0>>, <<100, -100>>}

PricingArg(margin, prices) ==
    [margin_percentage |-> margin, competitive_price |-> prices[1],
     optimal_price |-> prices[2]]

\* The rows of competitor_analyses a product may have, oldest first.
Levels == {"low", "medium", "high"}
Analysis(level) == [competition_level |-> level]
AnalysesArgs ==
    {<<>>} \cup {<<Analysis(l)>> : l \in Levels}
           \cup {<<Analysis(k), Analysis(l)>> : k \in Levels, l \in Levels}

\* A search result of n items: the first free_top of the top ten and the first
\* free_rest of the others offer free shipping; prices all 1.00, alternating
\* 1.00 and 2.00, or missing.
SearchResult(n, free_top, free_rest, prices) ==
    [ i \in 1..n |->
        [ price |-> IF prices = "zero" THEN 0
                    ELSE IF prices = "spread" /\ i % 2 = 0 THEN 200 ELSE 100,
          free_shipping |-> IF i <= TOP_COMPETITORS THEN i <= free_top
                            ELSE i - TOP_COMPETITORS <= free_rest ] ]

SearchResults ==
    { SearchResult(n, a, b, pr) :
        n \in 0..SEARCH_LIMIT, a \in 0..TOP_COMPETITORS,
        b \in 0..(SEARCH_LIMIT - TOP_COMPETITORS), pr \in {"flat", "spread", "zero"} }

FnInputs ==
    { [name |-> "calculate_and_score", score |-> sc, status |-> st, auto_approved |-> au,
       result |-> NULL] : sc \in 0..MaxScore, st \in Statuses, au \in BOOLEAN }
    \cup { [name |-> "determine_winner", a |-> a, b |-> b, result |-> NULL] :
             a \in WinnerArgs, b \in WinnerArgs }
    \cup { [name |-> "evaluate", row |-> [NewProduct(b, 50) EXCEPT !.status = st],
            result |-> NULL] : b \in (-MaxCost)..MaxCost, st \in Statuses }
    \cup { [name |-> "calculate_product_score", m1 |-> m1, m2 |-> m2, prices |-> pr,
            result |-> NULL] : m1 \in MarginArgs, m2 \in MarginArgs, pr \in PriceArgs }
    \cup { [name |-> "analyze_competition", items |-> items, result |-> NULL] :
             items \in SearchResults }
    \cup { [name |-> "score_competition", a1 |-> a1, a2 |-> a2, result |-> NULL] :
             a1 \in AnalysesArgs, a2 \in AnalysesArgs }
    \cup { [name |-> "optimize_product", row |-> [ListedProduct(1) EXCEPT !.status = st],
            m |-> m, remote |-> r, result |-> NULL] :
             st \in {"approved", "published", "paused"}, m \in MetricsInputs,
             r \in {"ok", "fail", "raise"} }

FnInit ==
    /\ LifeIdle
    /\ ABIdle
    /\ fn \in FnInputs

\* Lines 87-93 of calculate_and_score on a row with the given score.
apply_status_thresholds ==
    /\ fn.name = "calculate_and_score"
    /\ fn.result = NULL
    /\ fn' = [fn EXCEPT !.result =
                 [status |-> StatusForScore(fn.score),
                  auto_approved |-> AutoApprovedForScore(fn.score, fn.auto_approved)]]
    /\ UNCHANGED <<lifeVars, abVars>>

\* _determine_winner on (a, b) and on (b, a).
apply_determine_winner ==
    /\ fn.name = "determine_winner"
    /\ fn.result = NULL
    /\ fn' = [fn EXCEPT !.result = [ab |-> determine_winner(fn.a, fn.b),
                                    ba |-> determine_winner(fn.b, fn.a)]]
    /\ UNCHANGED <<lifeVars, abVars>>

\* calculate_optimal_price on the row's base cost and calculate_and_score on the row.
apply_evaluate ==
    /\ fn.name = "evaluate"
    /\ fn.result = NULL
    /\ fn' = [fn EXCEPT !.result = [pricing |-> calculate_optimal_price(fn.row.base_cost),
                                    row |-> Scored(fn.row)]]
    /\ UNCHANGED <<lifeVars, abVars>>

\* calculate_product_score on two pricing dicts that differ in the margin only.
apply_calculate_product_score ==
    /\ fn.name = "calculate_product_score"
    /\ fn.result = NULL
    /\ fn' = [fn EXCEPT !.result =
                 [s1 |-> calculate_product_score(PricingArg(fn.m1, fn.prices)),
                  s2 |-> calculate_product_score(PricingArg(fn.m2, fn.prices))]]
    /\ UNCHANGED <<lifeVars, abVars>>

\* optimize_product once, and a second time on the row the first run left, with
\* the same metrics and the same outcome of the remote call.
apply_optimize_product ==
    /\ fn.name = "optimize_product"
    /\ fn.result = NULL
    /\ LET once == optimize_product(fn.row, fn.m, fn.remote)
       IN  fn' = [fn EXCEPT !.result =
                     [once |-> once, twice |-> optimize_product(once, fn.m, fn.remote)]]
    /\ UNCHANGED <<lifeVars, abVars>>

\* analyze_competition on a search result.
apply_analyze_competition ==
    /\ fn.name = "analyze_competition"
    /\ fn.result = NULL
    /\ fn' = [fn EXCEPT !.result = [analysis |-> analyze_competition(fn.items)]]
    /\ UNCHANGED <<lifeVars, abVars>>

\* The evaluation of two products with the same pricing, each with its own
\* competitor_analyses rows: the competition component and the total score
\* calculate_product_score gives each.
apply_score_competition ==
    /\ fn.name = "score_competition"
    /\ fn.result = NULL
    /\ LET pricing == calculate_optimal_price(100)
       IN  fn' = [fn EXCEPT !.result =
                     [competition1 |-> CompetitionScore,
                      competition2 |-> CompetitionScore,
                      score1 |-> calculate_product_score(pricing),
                      score2 |-> calculate_product_score(pricing)]]
    /\ UNCHANGED <<lifeVars, abVars>>

FnNext ==
    \/ apply_status_thresholds
    \/ apply_determine_winner
    \/ apply_evaluate
    \/ apply_calculate_product_score
    \/ apply_optimize_product
    \/ apply_analyze_competition
    \/ apply_score_competition

SpecFn == FnInit /\ [][FnNext]_vars

(***************************************************************************)
(* Properties.                                                             *)
(***************************************************************************)
StatusOf(p) == IF products[p] = NULL THEN "absent" ELSE products[p].status

\* C1: re-running the evaluation (POST /{id}/calculate, or product creation
\* with an existing SKU) on a published product leaves its status published.
C1_EvaluationKeepsPublished ==
    [][\A p \in PIDS :
          (/\ StatusOf(p) = "published"
           /\ \/ recalculate_product(p)
              \/ \E b \in BaseCosts, k \in Stocks : create_product(p, b, k, "ok"))
          => products'[p].status = "published"]_vars

\* C2: a product becomes published only from approved, and only in a step
\* in which the remote creation for that product succeeded.
C2_PublishedOnlyFromApproved ==
    [][\A p \in PIDS :
          (/\ products'[p] # NULL
           /\ products'[p].status = "published"
           /\ StatusOf(p) # "published")
          => /\ StatusOf(p) = "approved"
             /\ created' = Append(created, p)]_vars

\* C3: a published product has a marketplace item id.
C3_PublishedHasItemId ==
    \A p \in PIDS :
        StatusOf(p) = "published" => products[p].ml_item_id # NULL

\* A product published by a successful remote creation, after the optimizer,
\* the stock sync and an evaluation have run.
C3_Witness ==
    \E p \in PIDS :
        /\ StatusOf(p) = "published"
        /\ products[p].ml_item_id # NULL
        /\ Len(created) > 0
        /\ lastPass[p].kind # "never"

\* C4: after an evaluation of a product that is not published the status is
\* the one its score gives: >= 80 approved with auto_approved, 50..79
\* needs_approval, below 50 rejected; and for every score in 0..100 exactly one
\* of should_auto_publish, needs_approval, should_reject holds.
C4_StatusByScore ==
    (fn # NULL /\ fn.name = "calculate_and_score" /\ fn.result # NULL
        /\ fn.status # "published")
    => /\ fn.score >= 80
            => fn.result.status = "approved" /\ fn.result.auto_approved = TRUE
       /\ (50 <= fn.score /\ fn.score < 80) => fn.result.status = "needs_approval"
       /\ fn.score < 50 => fn.result.status = "rejected"
       /\ Cardinality({k \in 1..3 :
              \/ k = 1 /\ should_auto_publish(fn.score)
              \/ k = 2 /\ needs_approval(fn.score)
              \/ k = 3 /\ should_reject(fn.score)}) = 1

\* A pending product evaluated at the boundary score 80.
C4_Witness ==
    /\ fn # NULL /\ fn.name = "calculate_and_score" /\ fn.result # NULL
    /\ fn.status = "pending" /\ fn.score = 80 /\ ~ fn.auto_approved
    /\ fn.result.status = "approved"

\* Notifications sent for test t.
NotifiedCount(sent, t) == Cardinality({i \in 1..Len(sent) : sent[i].test = t})

\* The test row and both listing rows of test t are the same after the step,
\* and no notification for t was sent in it.
TestUntouched(t) ==
    /\ t \in 1..Len(tests')
    /\ tests'[t] = tests[t]
    /\ listings'[tests[t].variant_a_id] = listings[tests[t].variant_a_id]
    /\ listings'[tests[t].variant_b_id] = listings[tests[t].variant_b_id]
    /\ NotifiedCount(notified', t) = NotifiedCount(notified, t)

\* C5: a test that is completed or cancelled is never evaluated again: no step
\* (evaluate_test, the daily sweep, or any other) changes its row or its
\* listings or sends another notification for it.
C5_FinishedTestIsFinal ==
    [][\A t \in 1..Len(tests) : tests[t].status # "running" => TestUntouched(t)]_vars

\* A completed test on a day after the day it ended, with its one notification.
C5_Witness ==
    \E t \in 1..Len(tests) :
        /\ tests[t].status = "completed"
        /\ now > Val(tests[t].ended_at)
        /\ NotifiedCount(notified, t) = 1

\* A readiness gate of test t fails: the duration, the visits of either
\* variant, or the sales of both.
GateFails(t) ==
    LET metrics_a == calculate_metrics(lmetrics, tests[t].variant_a_id)
        metrics_b == calculate_metrics(lmetrics, tests[t].variant_b_id)
    IN  \/ now - tests[t].started_at < AB_TEST_DURATION_DAYS
        \/ metrics_a.visits < AB_TEST_MIN_VISITS
        \/ metrics_b.visits < AB_TEST_MIN_VISITS
        \/ metrics_a.sales < AB_TEST_MIN_SALES /\ metrics_b.sales < AB_TEST_MIN_SALES

\* C6: evaluate_test (called directly or by the sweep) on a running test with a
\* failing readiness gate changes nothing: the test stays running with no
\* winner, both listings stay as they were, nothing is notified.
C6_GateFailureDefers ==
    [][\A t \in 1..Len(tests) :
          (/\ tests[t].status = "running"
           /\ GateFails(t)
           /\ evaluate_test(t) \/ evaluate_ab_tests_job)
          => /\ TestUntouched(t)
             /\ tests'[t].status = "running"
             /\ tests'[t].winner = NULL]_vars

\* A running test past its duration where one variant has large figures
\* (1000 visits, 30 sales or more) and the other too few visits.
C6_Witness ==
    \E t \in 1..Len(tests) :
        LET metrics_a == calculate_metrics(lmetrics, tests[t].variant_a_id)
            metrics_b == calculate_metrics(lmetrics, tests[t].variant_b_id)
        IN  /\ tests[t].status = "running"
            /\ now - tests[t].started_at >= AB_TEST_DURATION_DAYS
            /\ metrics_a.visits >= 1000 /\ metrics_a.sales >= 30
            /\ metrics_b.visits < AB_TEST_MIN_VISITS
            /\ listings[tests[t].variant_a_id].status = "active"
            /\ listings[tests[t].variant_b_id].status = "active"

\* x is at least 10% greater than y (relative to y).
AtLeastTenPercentGreater(x, y) == x > y /\ 10 * x >= 11 * y

\* The cascade over conversion rate, sales and revenue in which an advantage
\* of at least 10% decides.
CascadeWinner(a, b) ==
    IF AtLeastTenPercentGreater(a.conversion_rate, b.conversion_rate) THEN "A"
    ELSE IF AtLeastTenPercentGreater(b.conversion_rate, a.conversion_rate) THEN "B"
    ELSE IF AtLeastTenPercentGreater(a.sales, b.sales) THEN "A"
    ELSE IF AtLeastTenPercentGreater(b.sales, a.sales) THEN "B"
    ELSE IF AtLeastTenPercentGreater(a.revenue, b.revenue) THEN "A"
    ELSE IF AtLeastTenPercentGreater(b.revenue, a.revenue) THEN "B"
    ELSE "tie"

\* C7: the winner is decided by conversion rate, then sales, then revenue, a
\* value at least 10% greater than the other's winning at each criterion and
\* tie only when no criterion shows such an advantage; visits (1000, 1000)
\* with sales (50, 30) gives A, and the inverse B.
C7_WinnerCascade ==
    (fn # NULL /\ fn.name = "determine_winner" /\ fn.result # NULL)
    => /\ fn.result.ab = CascadeWinner(fn.a, fn.b)
       /\ (/\ fn.a.visits = 1000 /\ fn.b.visits = 1000
           /\ fn.a.sales = 50 /\ fn.b.sales = 30
           /\ fn.a.conversion_rate = 500 /\ fn.b.conversion_rate = 300)
          => fn.result.ab = "A" /\ fn.result.ba = "B"

\* The label with A and B exchanged.
Swapped(winner) == IF winner = "A" THEN "B" ELSE IF winner = "B" THEN "A" ELSE "tie"

\* C8: _determine_winner(b, a) is _determine_winner(a, b) with the labels A
\* and B exchanged, for non-negative metrics.
C8_WinnerSymmetric ==
    (fn # NULL /\ fn.name = "determine_winner" /\ fn.result # NULL)
    => fn.result.ba = Swapped(fn.result.ab)

\* Equal conversion rates, sales 30 against 50: the sales criterion decides,
\* B one way round and A the other.
C8_Witness ==
    /\ fn # NULL /\ fn.name = "determine_winner" /\ fn.result # NULL
    /\ fn.a.conversion_rate = fn.b.conversion_rate
    /\ fn.a.sales = 30 /\ fn.b.sales = 50
    /\ fn.result.ab = "B" /\ fn.result.ba = "A"

\* A completed test: the loser's listing is paused with ended_at set, the
\* winner's is active, on a tie both are active; results.winner is the winner.
CompletedAsDecided(t) ==
    LET winner == Val(tests[t].winner)
        listing_a == listings[tests[t].variant_a_id]
        listing_b == listings[tests[t].variant_b_id]
    IN  /\ tests[t].winner # NULL
        /\ winner \in {"A", "B", "tie"}
        /\ tests[t].results # NULL
        /\ tests[t].results.winner = winner
        /\ winner = "A" => /\ listing_b.status = "paused" /\ listing_b.ended_at # NULL
                           /\ listing_a.status = "active" /\ listing_a.ended_at = NULL
        /\ winner = "B" => /\ listing_a.status = "paused" /\ listing_a.ended_at # NULL
                           /\ listing_b.status = "active" /\ listing_b.ended_at = NULL
        /\ winner = "tie" => /\ listing_a.status = "active" /\ listing_a.ended_at = NULL
                             /\ listing_b.status = "active" /\ listing_b.ended_at = NULL

\* C9: in every reachable state a completed test has exactly its loser's
\* listing paused (with ended_at), none on a tie, and results.winner equal to
\* its winner.
C9_LoserPaused ==
    \A t \in 1..Len(tests) : tests[t].status = "completed" => CompletedAsDecided(t)

\* A test completed with winner A: listing B paused, listing A active.
C9_Witness ==
    \E t \in 1..Len(tests) :
        /\ tests[t].status = "completed"
        /\ tests[t].winner = <<"A">>
        /\ listings[tests[t].variant_b_id].status = "paused"
        /\ listings[tests[t].variant_a_id].status = "active"

PriceActs == {"price_remote", "price_adjusted", "price_aborted"}

\* C10: when the pause predicate held in a product's pass, that pass makes no
\* price update: final_price and margin_percentage keep their values through
\* every optimizer step of the pass, no remote price call is made or pending
\* for the product, whether or not the pause itself succeeded.
C10_PausePrecedesPrice ==
    [][\A p \in PIDS :
          (/\ lastPass'[p].should_pause
           /\ optimize_products_job \/ \E r \in {"ok", "fail", "raise"} : update_item_returns(r))
          => /\ (products[p] # NULL /\ products'[p] # NULL)
                   => /\ products'[p].final_price = products[p].final_price
                      /\ products'[p].margin_percentage = products[p].margin_percentage
             /\ products[p] = NULL => products'[p] = NULL
             /\ lastPass'[p].acts \cap PriceActs = {}
             /\ ~ (opt'.pc = "price_call" /\ opt'.pid = p)]_vars

\* A finished pass in which both predicates held and the remote pause failed:
\* the product is still published and no price step ran.
C10_Witness ==
    \E p \in PIDS :
        /\ lastPass[p].should_pause
        /\ lastPass[p].acts = {"pause_remote"}
        /\ opt.pc = "idle"
        /\ StatusOf(p) = "published"
        /\ should_adjust_price(metrics[p])

\* A step of the optimizer: the start of a sweep or the return of a remote call.
OptimizerStep ==
    optimize_products_job \/ \E r \in {"ok", "fail", "raise"} : update_item_returns(r)

OptimizerActs ==
    {"pause_remote", "paused", "price_remote", "price_adjusted",
     "ads_activated", "ads_paused", "scaled"}

\* C11: every optimizer action attempted for a product (pause, price
\* adjustment, activate ads, pause ads, scale) appends an ActionLog entry for
\* that product in the step that attempts it.
C11_OptimizerActionsLogged ==
    [][\A p \in PIDS :
          (/\ OptimizerStep
           /\ lastPass'[p] # lastPass[p]
           /\ lastPass'[p].acts \cap OptimizerActs # {})
          => \E i \in (Len(actions) + 1)..Len(actions') : actions'[i].product_id = p]_vars

\* The products the running sweep's query returned.
SweepStart ==
    IF opt.pc = "idle"
    THEN {p \in PIDS : products[p] # NULL /\ products[p].status = "published"}
    ELSE opt.start

C14_ActionLogAppendOnly ==
    [][/\ Len(actions') >= Len(actions)
       /\ SubSeq(actions', 1, Len(actions)) = actions]_vars

\* C15: for a base cost of zero or less the pricing calculator returns no
\* result and calculate_and_score leaves the product as it was (status, prices,
\* margin and score).
C15_NonPositiveCostFails ==
    (fn # NULL /\ fn.name = "evaluate" /\ fn.result # NULL /\ fn.row.base_cost <= 0)
    => /\ fn.result.pricing = NULL
       /\ fn.result.row = fn.row

\* The ladder and margin returned for a positive base cost.
Ladder == fn.result.pricing

C17_ScoreMonotone ==
    (fn # NULL /\ fn.name = "calculate_product_score" /\ fn.result # NULL)
    => /\ fn.m1 <= fn.m2 => fn.result.s1 <= fn.result.s2
       /\ fn.result.s1 \in 0..100
       /\ fn.result.s2 \in 0..100

\* Two margins inside the linear band scored differently.
C17_Witness ==
    /\ fn # NULL /\ fn.name = "calculate_product_score" /\ fn.result # NULL
    /\ MIN_MARGIN_PERCENTAGE * 100 <= fn.m1
    /\ fn.m1 < fn.m2
    /\ fn.m2 < IDEAL_MARGIN_PERCENTAGE * 100
    /\ fn.result.s1 < fn.result.s2

\* optimize_product is called on p in this step.
Visited(p) ==
    /\ OptimizerStep
    /\ lastPass'[p].kind # "never"
    /\ optimize_products_job \/ lastPass[p].kind = "never"

C19_FailedUpdateChangesNothing ==
    [][\A r \in {"fail", "raise"} :
          (update_item_returns(r) /\ products[opt.pid] # NULL)
          => /\ products'[opt.pid] # NULL
             /\ products'[opt.pid].status = products[opt.pid].status
             /\ products'[opt.pid].final_price = products[opt.pid].final_price
             /\ products'[opt.pid].margin_percentage
                    = products[opt.pid].margin_percentage]_vars

\* The price and the margin _adjust_price computes from a row.
NewPrice(row) == ReducedPrice(Val(row.final_price))

NewMargin(row) ==
    calculate_margin(NewPrice(row), row.base_cost, row.ml_commission_percentage,
                     row.shipping_cost)

\* optimize_product reaches _adjust_price for p in this step.
PriceStep(p) ==
    /\ Visited(p)
    /\ products[p] # NULL /\ metrics[p] # NULL
    /\ products[p].status = "published"
    /\ should_pause(products[p], metrics[p]) = "no"
    /\ should_adjust_price(metrics[p])
    /\ products[p].final_price # NULL

SamePrice(p) ==
    /\ products'[p] # NULL
    /\ products'[p].final_price = products[p].final_price
    /\ products'[p].margin_percentage = products[p].margin_percentage

\* The abort half of C20: a price adjustment whose recomputed margin is below
\* the global minimum makes no remote call and leaves final_price and
\* margin_percentage alone; one whose margin passes sends the reduced price.
AbortOrCall ==
    \A p \in PIDS :
        PriceStep(p) =>
            IF NewMargin(products[p]) < MIN_MARGIN_PERCENTAGE * 100
            THEN /\ "price_remote" \notin lastPass'[p].acts
                 /\ "price_adjusted" \notin lastPass'[p].acts
                 /\ ~ (opt'.pc # "idle" /\ opt'.pid = p)
                 /\ SamePrice(p)
            ELSE products[p].ml_item_id # NULL =>
                    /\ opt'.pc = "price_call" /\ opt'.pid = p
                    /\ opt'.plan.new_price = <<NewPrice(products[p])>>
                    /\ SamePrice(p)

\* The adjustment the remote call was sent for is persisted: the price the
\* pass read, less the configured percentage (to the nearest unit of the price
\* column), and the margin at that price.
PricePersisted ==
    /\ products'[opt.pid] # NULL
    /\ products'[opt.pid].final_price = <<NewPrice(opt.snap)>>
    /\ products'[opt.pid].margin_percentage = <<NewMargin(opt.snap)>>
    /\ 2 * Abs(Val(products'[opt.pid].final_price) * 100
                - Val(opt.snap.final_price) * (100 - PRICE_REDUCTION_PERCENTAGE)) <= 100

\* C20 as claimed: a price adjustment is aborted (no remote call, price and
\* margin unchanged) when the recomputed margin is below the global minimum;
\* otherwise final_price is reduced by the configured percentage and
\* margin_percentage is the margin at the new price.
C20_AbortOrReduce ==
    [][/\ AbortOrCall
       /\ \A r \in {"ok", "fail", "raise"} :
             (opt.pc = "price_call" /\ update_item_returns(r) /\ products[opt.pid] # NULL)
             => PricePersisted]_vars

\* C20 amended: a price adjustment is aborted (no remote call, price and margin
\* unchanged) when the recomputed margin is below the global minimum;
\* otherwise the reduced price is sent and, when the remote update succeeds,
\* final_price is reduced by the configured percentage and margin_percentage
\* is the margin at the new price; when the remote update raises both keep
\* their values.
C20_AbortOrReduceUnlessRaise ==
    [][/\ AbortOrCall
       /\ (opt.pc = "price_call" /\ update_item_returns("ok") /\ products[opt.pid] # NULL)
             => PricePersisted
       /\ (opt.pc = "price_call" /\ update_item_returns("raise") /\ products[opt.pid] # NULL)
             => SamePrice(opt.pid)]_vars

\* A product whose price was reduced by an earlier sweep and whose next
\* reduction was aborted: it still has the once-reduced price.
C20_Witness ==
    \E p \in PIDS :
        /\ lastPass[p].kind = "price_abort"
        /\ products[p] # NULL
        /\ products[p].final_price # ListedProduct(p).final_price
        /\ Val(products[p].margin_percentage) >= MIN_MARGIN_PERCENTAGE * 100
        /\ NewMargin(products[p]) < MIN_MARGIN_PERCENTAGE * 100

\* C21: running optimize_product twice in succession on a product with
\* unchanged metrics leaves the same status, final_price and margin_percentage
\* as running it once.
C21_OptimizerIdempotent ==
    (fn # NULL /\ fn.name = "optimize_product" /\ fn.result # NULL)
    => /\ fn.result.twice.status = fn.result.once.status
       /\ fn.result.twice.final_price = fn.result.once.final_price
       /\ fn.result.twice.margin_percentage = fn.result.once.margin_percentage

\* C22: the competition component of a product's score follows the level of
\* its latest CompetitorAnalysis (low 25, medium 15, high 5), so two products
\* that differ only in that level get different competition scores.
C22_CompetitionFromLatestAnalysis ==
    (fn # NULL /\ fn.name = "score_competition" /\ fn.result # NULL
        /\ get_latest_analysis(fn.a1) # NULL /\ get_latest_analysis(fn.a2) # NULL)
    => LET l1 == get_latest_analysis(fn.a1).competition_level
           l2 == get_latest_analysis(fn.a2).competition_level
       IN  /\ fn.result.competition1 = competition_scores(l1)
           /\ fn.result.competition2 = competition_scores(l2)
           /\ l1 # l2 => fn.result.competition1 # fn.result.competition2

\* The offers of free shipping in the full result set.
FreeShippingCountAll(items) ==
    Cardinality({i \in DOMAIN items : items[i].free_shipping})

\* C23: the free-shipping percentage analyze_competition returns is 100 * (items
\* of the full result set that offer free shipping) / (size of the result
\* set), and should_offer_free_shipping is true exactly when more than 70% of
\* all returned items offer free shipping.
C23_FreeShippingOverFullSet ==
    (fn # NULL /\ fn.name = "analyze_competition" /\ fn.result # NULL
        /\ fn.result.analysis # NULL)
    => LET all == FreeShippingCountAll(fn.items)
       IN  /\ fn.result.analysis.free_shipping_percentage
                 = RoundDiv(all * 10000, Len(fn.items))
           /\ fn.result.analysis.should_offer_free_shipping
                 = (all * 100 > 70 * Len(fn.items))

\* A listing flagged is_ab_test that no test references.
Orphan(ls, ts, i) ==
    /\ ls[i] # NULL
    /\ ls[i].is_ab_test
    /\ ~ \E t \in 1..Len(ts) : i \in {ts[t].variant_a_id, ts[t].variant_b_id}

\* C24: create_test persists listing A active, listing B active and the
\* running test that references both, or nothing at all; no listing flagged
\* is_ab_test is ever without a test that references it.
C24_CreateTestAtomic ==
    /\ [](\A i \in 1..Len(listings) : ~ Orphan(listings, tests, i))
    /\ [][\A p \in PIDS, a \in ItemIds, b \in ItemIds, r \in {"ok", "fail"} :
             create_test(p, a, b, r)
             => \/ listings' = listings /\ tests' = tests
                \/ /\ products[p] # NULL /\ r = "ok"
                   /\ listings' = listings \o <<NewListing(p, a, "A"), NewListing(p, b, "B")>>
                   /\ tests' = Append(tests, NewTest(p, Len(listings) + 1,
                                                     Len(listings) + 2, now))]_vars

\* A created test: two active listings and the running test that names them.
C24_Witness ==
    /\ Len(tests) = 1 /\ Len(listings) = 2
    /\ tests[1].status = "running"
    /\ tests[1].variant_a_id = 1 /\ tests[1].variant_b_id = 2
    /\ listings[1].status = "active" /\ listings[1].ab_variant = "A"
    /\ listings[2].status = "active" /\ listings[2].ab_variant = "B"
    /\ listings[1].ml_item_id # listings[2].ml_item_id

\* C25: every persisted Product has its ProductMetrics row, and a
\* create_product that reports failure has persisted no Product row.
C25_ProductCreatedWithMetrics ==
    /\ [](\A p \in PIDS : products[p] # NULL => metrics[p] # NULL)
    /\ [][\A p \in PIDS, b \in BaseCosts, k \in Stocks :
             (products[p] = NULL /\ create_product(p, b, k, "fail"))
             => products'[p] = NULL]_vars

\* C26: the remote creation succeeds at most once per product (no creation
\* succeeds for a product that already has a marketplace id), and a product's
\* ml_item_id, once set, never changes.
C26_OneListingPerProduct ==
    [][/\ \A i \in 1..Len(pubs) :
             (create_item_returns(i, "ok") /\ products[pubs[i].pid] # NULL)
             => products[pubs[i].pid].ml_item_id = NULL
       /\ \A p \in PIDS :
             (products[p] # NULL /\ products[p].ml_item_id # NULL /\ products'[p] # NULL)
             => products'[p].ml_item_id = products[p].ml_item_id]_vars

\* C27: a product's status becomes paused only from published: in every step
\* that writes paused, the status the store held right before is published.
C27_PausedOnlyFromPublished ==
    [][\A p \in PIDS :
          (/\ products[p] # NULL /\ products'[p] # NULL
           /\ products'[p].status = "paused"
           /\ products[p].status # "paused")
          => products[p].status = "published"]_vars

C29_AutoPublishRetries ==
    /\ [][\A i \in 1..Len(pubs), r \in {"fail", "raise"} :
             create_item_returns(i, r)
             => /\ products' = products
                /\ AutoPublishable(pubs[i].pid)]_vars
    /\ \A p \in PIDS : AutoPublishable(p) ~> (StatusOf(p) = "published")

\* The auto-approved product published by the job after a creation that failed.
C29_Witness ==
    /\ StatusOf(1) = "published"
    /\ products[1].ml_item_id # NULL
    /\ Len(actions) >= 2
    /\ actions[1] = [product_id |-> 1, action_type |-> "publish_failed", success |-> FALSE]
    /\ actions[Len(actions)] = [product_id |-> 1, action_type |-> "published",
                                success |-> TRUE]

\* The price of p changes in this step.
PriceChanges(p) ==
    /\ products[p] # NULL /\ products'[p] # NULL
    /\ products'[p].final_price # products[p].final_price

\* C30: under repeated optimizer passes the final_price of a published product
\* never goes up, every reduction that is applied leaves a positive price with
\* a margin of at least the global minimum, and from some pass on no pass
\* reduces the price any more.
C30_ReductionsStopAboveFloor ==
    /\ [][\A p \in PIDS :
             PriceChanges(p)
             => /\ products[p].base_cost > 0
                /\ Val(products'[p].final_price) < Val(products[p].final_price)
                /\ Val(products'[p].final_price) > 0
                /\ Val(products'[p].margin_percentage) >= MIN_MARGIN_PERCENTAGE * 100]_vars
    /\ <>[][\A p \in PIDS : ~ PriceChanges(p)]_vars

\* Both products at their floor: each was reduced, keeps a margin of at least
\* the minimum, and its latest pass aborted the next reduction.
C30_Witness ==
    /\ opt.pc = "idle"
    /\ \A p \in PIDS :
          /\ products[p] # NULL
          /\ lastPass[p].kind = "price_abort"
          /\ Val(products[p].final_price) < Val(ListedProduct(p).final_price)
          /\ Val(products[p].margin_percentage) >= MIN_MARGIN_PERCENTAGE * 100
====
